---- MODULE Spec2Model ----
(***************************************************************************)
(* Parametric uncertainty-quantification pipeline of shamo: dispatch of    *)
(* the sub-problems of a parametric problem (sequential, process pool,     *)
(* job scripts) and aggregation of the sub-solutions by finalize().        *)
(*                                                                         *)
(* Three problem/solution families are modelled side by side:              *)
(*   "forward"   EEGParametricForwardProblem / ParametricForwardSolution   *)
(*   "leadfield" ProbParamEEGLeadfield / SolParamEEGLeadfield              *)
(*   "hdtdcs"    ProbParamHDTDCSSim / SolParamHDTDCSSim                    *)
(***************************************************************************)
EXTENDS Integers, Sequences, FiniteSets, TLC

\* ------------------------------------------------------------------ bounds
MaxEvals == 3       \* n_evals ranges over 1..MaxEvals
MaxProc == 2        \* n_proc ranges over 1..MaxProc
MaxStale == 2       \* number of sub-solutions an earlier run left behind
MaxSkip == 1        \* skip ranges over 0..MaxSkip
MaxManual == 2      \* manual finalize() calls made by the caller after dispatch
MaxCoord == 2       \* coordinates of the points to thin range over 0..MaxCoord
MaxPts == 4         \* number of points handed to a thinning routine
MaxDistSq == 3      \* the square of the minimum separation ranges over 0..MaxDistSq
MaxArg == 2         \* n, n_resamples and conf_level of gen_sobol range over 1..MaxArg
MaxCalls == 4       \* number of calls made on one surrogate
MaxExit == 40       \* exit codes of the external solver range over 0..MaxExit

\* ------------------------------------------------------- program constants
IndexWidth == 8     \* width of the zero padded index in a sub-solution name

Kinds == {"forward", "leadfield", "hdtdcs"}

METHOD_SEQ == "sequential"
METHOD_MUL == "multiprocessing"
METHOD_JOB == "job"
Methods == {METHOD_SEQ, METHOD_MUL, METHOD_JOB}

TYPE_CONSTANT == "constant"
TYPE_UNIFORM == "uniform"
TYPE_NORMAL == "normal"

SolName == "sol"

\* Exit codes of the external solver drawn for a sub-problem solve.
ExitCodes == {0, 1, 2}

\* ---------------------------------------------------------------- helpers
Range(s) == {s[k] : k \in 1..Len(s)}

\* ------------------------------------------------- names of directory entries
\* An entry name is <prefix>_<digits><suffix>.
RECURSIVE DigitsOf(_)
DigitsOf(n) == IF n < 10 THEN <<n>> ELSE Append(DigitsOf(n \div 10), n % 10)

RECURSIVE PadLeft(_, _)
PadLeft(ds, w) == IF Len(ds) >= w THEN ds ELSE PadLeft(<<0>> \o ds, w)

\* "{:08d}".format(i)
Format08d(i) == PadLeft(DigitsOf(i), IndexWidth)

RECURSIVE DigitsValue(_)
DigitsValue(ds) ==
    IF Len(ds) = 0 THEN 0
    ELSE 10 * DigitsValue(SubSeq(ds, 1, Len(ds) - 1)) + ds[Len(ds)]

\* f"{sol.name}_{i:08d}" (abc.py) and "sol_{:08d}".format(i) (forward family)
SubName(i) == [prefix |-> SolName, digits |-> Format08d(i), suffix |-> ""]

\* Path(parent_path) / f"{name}.py"
PyName(i) == [prefix |-> SolName, digits |-> Format08d(i), suffix |-> ".py"]

\* Lexicographic order on digit strings; a proper prefix sorts first (the
\* character following the name in a path, "/", is smaller than any digit).
RECURSIVE DigitsLess(_, _)
DigitsLess(a, b) ==
    IF Len(b) = 0 THEN FALSE
    ELSE IF Len(a) = 0 THEN TRUE
    ELSE IF a[1] # b[1] THEN a[1] < b[1]
    ELSE DigitsLess(Tail(a), Tail(b))

\* Order used by sorted() on the relative paths "<name>/<name>.json" of
\* entries that share the solution's prefix.
NameLess(a, b) == DigitsLess(a.digits, b.digits)

\* Mutant: the discovered paths are kept in directory order.
Unsorted(names) == names

\* sorted(...)
Sorted(names) == SortSeq(names, NameLess)

\* ----------------------------------------------------- solution directory
\* The solution directory is listed in creation order.  An entry records
\* whether it is a directory, whether it holds its JSON record, whether it
\* holds its own elements file, where its record's elements_path points
\* ("none", "own", "parent"), and which run produced it (0: an earlier run,
\* 1: this dispatch, 2: a job script run outside the program).
HasEntry(d, nm) == \E k \in 1..Len(d) : d[k].name = nm

EntryOf(d, nm) == d[CHOOSE k \in 1..Len(d) : d[k].name = nm]

Put(d, e) ==
    IF HasEntry(d, e.name)
    THEN [k \in 1..Len(d) |-> IF d[k].name = e.name THEN e ELSE d[k]]
    ELSE Append(d, e)

IsPy(e) == e.name.suffix = ".py"

NotPy(e) == ~IsPy(e)

SubDir(i, g) ==
    [name |-> SubName(i), isDir |-> TRUE, json |-> TRUE, elems |-> TRUE,
     ref |-> "own", gen |-> g]

\* DirObject.__init__: path.mkdir(parents=True, exist_ok=True)
Mkdir(d, nm) ==
    IF HasEntry(d, nm) THEN d
    ELSE Append(d, [name |-> nm, isDir |-> TRUE, json |-> FALSE,
                    elems |-> FALSE, ref |-> "none", gen |-> 1])

PyFile(i) ==
    [name |-> PyName(i), isDir |-> FALSE, json |-> FALSE, elems |-> FALSE,
     ref |-> "none", gen |-> 1]

\* ------------------------------------------------------ parametric problem
\* A parameter is a name bound to a distribution, with the constant it takes
\* when its distribution is constant and the field attached to it.
ParamNames(k) ==
    IF k = "hdtdcs" THEN <<"sigmas.A", "current.val">>
    ELSE <<"sigmas.A", "sigmas.B">>

ParamField(nm) == IF nm = "sigmas.A" THEN "aniso" ELSE "none"

ParamConst(nm) == IF nm = "sigmas.A" THEN 11 ELSE 22

MkProb(k, dists) ==
    [params |-> [c \in 1..Len(ParamNames(k)) |->
                    [name |-> ParamNames(k)[c], dist |-> dists[c],
                     val |-> ParamConst(ParamNames(k)[c]),
                     field |-> ParamField(ParamNames(k)[c])]],
     reference |-> "ref", markers |-> "mrk", rois |-> "roi"]

IsConstant(p) == p.dist = TYPE_CONSTANT

IsVarying(p) == ~IsConstant(p)

Reverse(seq) == [c \in 1..Len(seq) |-> seq[Len(seq) + 1 - c]]

\* Mutant: the varying group is returned in reverse order.
gen_fixed_varying_reversed(pb) ==
    [fixed |-> SelectSeq(pb.params, IsConstant),
     varying |-> Reverse(SelectSeq(pb.params, IsVarying))]

\* CompParamTissueProp.to_param / CompParamValue.to_param, concatenated by
\* _gen_fixed_varying; the forward family filters on `distribution is None`.
gen_fixed_varying(pb) ==
    [fixed |-> SelectSeq(pb.params, IsConstant),
     varying |-> SelectSeq(pb.params, IsVarying)]

\* Point t (counted from 0) of column c of the Halton design.
HaltonPoint(c, t) == [src |-> "halton", a |-> c, b |-> t]

ConstValue(v) == [src |-> "const", a |-> 0, b |-> v]

\* dist.sample(m, rule="halton") of the joint distribution of j variables:
\* row c holds points 0..m-1 of coordinate c of the sequence.
HaltonSample(j, m) == [c \in 1..j |-> [t \in 1..m |-> HaltonPoint(c, t - 1)]]

\* Number of points asked of the sequence: n_evals + skip, and n_evals in the
\* forward family's _generate_evaluation_points.
SampleSize(k, n, skp) == IF k = "forward" THEN n ELSE n + skp

\* Mutant: the points are dropped at the end of the row, x[:, :-skip].
DropLast(row, skp) ==
    IF skp >= Len(row) THEN <<>> ELSE SubSeq(row, 1, Len(row) - skp)

\* x[:, skip:], on one row
DropFirst(row, skp) ==
    IF skp >= Len(row) THEN <<>> ELSE SubSeq(row, skp + 1, Len(row))

\* x = dist.sample(...); if skip != 0: x = x[:, skip:]
HaltonDesign(k, j, n, skp) ==
    [c \in 1..j |-> DropFirst(HaltonSample(j, SampleSize(k, n, skp))[c], skp)]

\* np.ones((x.shape[1],)) * p[0]; the forward family keeps the scalar.
FixedColumn(k, v, n) ==
    IF k = "forward" THEN [isArray |-> FALSE, vals |-> <<ConstValue(v)>>]
    ELSE [isArray |-> TRUE, vals |-> [t \in 1..n |-> ConstValue(v)]]

PosIn(seq, nm) == CHOOSE c \in 1..Len(seq) : seq[c].name = nm

NameSet(seq) == {seq[c].name : c \in 1..Len(seq)}

\* _gen_params / _generate_evaluation_points, for a non-empty varying group.
\* x.shape[1].  The design has a row whenever the sampler gets this far: with
\* no varying parameter it raises before; n stands for the width then.
Columns(x, n) == IF Len(x) = 0 THEN n ELSE Len(x[1])

gen_params(k, pb, n, skp) ==
    LET fv == gen_fixed_varying(pb)
        x == HaltonDesign(k, Len(fv.varying), n, skp)
    IN [nm \in NameSet(pb.params) |->
          IF nm \in NameSet(fv.varying)
          THEN [isArray |-> TRUE, vals |-> x[PosIn(fv.varying, nm)]]
          ELSE FixedColumn(k, pb.params[PosIn(pb.params, nm)].val,
                           Columns(x, n))]

\* The skip handed to the sampler by solve(): the forward family reads the
\* keyword and calls _generate_evaluation_points(n_evals) without it.
SkipArg(k, skp) == IF k = "forward" THEN 0 ELSE skp

\* Mutant: the emptiness test of the varying group is dropped.
NoVaryingNever(pb) == FALSE

\* if len(varying) == 0: raise RuntimeError
NoVarying(pb) == Len(gen_fixed_varying(pb).varying) = 0

\* Mutant: every sub-problem is given the first evaluation point.
gen_sub_prob_first(k, pb, pts, i) ==
    [vals |-> [nm \in Range(ParamNames(k)) |-> pts[nm].vals[1]],
     fields |-> [nm \in Range(ParamNames(k)) |->
                  pb.params[PosIn(pb.params, nm)].field],
     reference |-> pb.reference, markers |-> pb.markers, rois |-> pb.rois]

\* _gen_sub_prob / one iteration of _generate_sub_problems
gen_sub_prob(k, pb, pts, i) ==
    [vals |-> [nm \in Range(ParamNames(k)) |->
                  IF pts[nm].isArray THEN pts[nm].vals[i + 1]
                  ELSE pts[nm].vals[1]],
     fields |-> [nm \in Range(ParamNames(k)) |->
                  pb.params[PosIn(pb.params, nm)].field],
     reference |-> pb.reference, markers |-> pb.markers, rois |-> pb.rois]

\* _gen_sub_probs / _generate_sub_problems
gen_sub_probs(k, pb, pts, n) == [t \in 1..n |-> gen_sub_prob(k, pb, pts, t - 1)]

\* ------------------------------------------------------------- aggregation
\* In-memory parametric solution: created by its constructor, the relative
\* paths of its sub-solutions, the finalized flag (kept by the forward family
\* only), the shape and the sensors copied from a sub-solution (-1 when
\* unset), and whether the elements and surrogate paths are set.
NewSol ==
    [created |-> TRUE, paths |-> <<>>, is_finalized |-> FALSE, shape |-> -1,
     sensors |-> -1, elements_path |-> FALSE, surrogate_model_path |-> FALSE]

NoSol == [NewSol EXCEPT !.created = FALSE]

\* entry.is_dir() and re.compile(r"sol_\d{8}").match(name)
MatchForward(e) ==
    e.isDir /\ e.name.prefix = "sol" /\ Len(e.name.digits) >= IndexWidth

\* p.is_dir and re.match(r"^.+_\d{8}$", p.name): the bound method `p.is_dir`
\* is never called, hence always true.
MatchParam(e) ==
    e.name.prefix # "" /\ Len(e.name.digits) = IndexWidth /\ e.name.suffix = ""

NamesOf(d) == [k \in 1..Len(d) |-> d[k].name]

\* SolParamABC.get_sub_file
get_sub_file(d) == Sorted(NamesOf(SelectSeq(d, MatchParam)))

\* The shape and the sensors recorded in a sub-solution are those of the run
\* that produced it.
ShapeOf(e) == e.gen

SensorsOf(e) == e.gen

\* Mutant: the common data are read from the last sub-solution.
LastSub(d, paths) == EntryOf(d, paths[Len(paths)])

\* solutions[0] / sub_sols[0]
FirstSub(d, paths) == EntryOf(d, paths[1])

AllLoadable(d, paths) ==
    \A k \in 1..Len(paths) : HasEntry(d, paths[k]) /\ EntryOf(d, paths[k]).json

\* CommonForwardSolution.elements_path of the sub-solution stored in entry e
ElementsExist(e, pe) == (e.ref = "own" /\ e.elems) \/ (e.ref = "parent" /\ pe)

\* for solution in solutions: unlink its elements file, point its record at
\* the parent's copy, save it.  Stops at the first sub-solution whose
\* elements file no longer exists.
RECURSIVE DedupLoop(_, _, _, _)
DedupLoop(paths, k, d, pe) ==
    IF k > Len(paths) THEN [disk |-> d, parentElems |-> pe, ok |-> TRUE]
    ELSE LET e == EntryOf(d, paths[k])
         IN IF ~ElementsExist(e, pe)
            THEN [disk |-> d, parentElems |-> pe, ok |-> FALSE]
            ELSE DedupLoop(paths, k + 1,
                           Put(d, [e EXCEPT !.elems = (e.ref # "own") /\ e.elems,
                                            !.ref = "parent"]),
                           (e.ref # "parent") /\ pe)

FinOut(s, d, sv, pe, sf, out, scanned, fitted) ==
    [sol |-> s, disk |-> d, saved |-> sv, parentElems |-> pe,
     surrogateFile |-> sf, out |-> out, scanned |-> scanned, fitted |-> fitted]

\* A fit that fails without raising: nothing is written and nothing is set.
generate_surrogate_model_silent(s, fitOk) ==
    [raised |-> FALSE, file |-> FALSE, sol |-> s]

\* EEGParametricForwardSolution.generate_surrogate_model: the model is
\* pickled into <name>_surrogate.bin and the path is recorded after that;
\* a fit that raises leaves the solution as it was.
generate_surrogate_model(s, fitOk) ==
    [raised |-> ~fitOk, file |-> fitOk,
     sol |-> IF fitOk THEN [s EXCEPT !.surrogate_model_path = TRUE] ELSE s]

\* ParametricForwardSolution.finalize(clean), with the outcome of the
\* surrogate fit as an input.
finalize_forward(s, d, sv, pe, sf, clean, fitOk) ==
    IF s.is_finalized THEN FinOut(s, d, sv, pe, sf, "noop", FALSE, FALSE)
    ELSE
    LET sub_paths == NamesOf(SelectSeq(d, MatchForward))
    IN  IF Len(sub_paths) = 0
        THEN FinOut(s, d, sv, pe, sf, "NoSubSolution", TRUE, FALSE)
        ELSE
        LET s1 == [s EXCEPT !.paths = Sorted(sub_paths)]
            d1 == IF clean THEN SelectSeq(d, NotPy) ELSE d
        IN  IF ~AllLoadable(d1, s1.paths)
            THEN FinOut(s1, d1, sv, pe, sf, "FileNotFound", TRUE, FALSE)
            ELSE
            LET first == FirstSub(d1, s1.paths)
                s2 == [s1 EXCEPT !.shape = ShapeOf(first),
                                 !.sensors = SensorsOf(first)]
            IN  IF ~ElementsExist(first, pe)
                THEN FinOut(s2, d1, sv, pe, sf, "FileNotFound", TRUE, FALSE)
                ELSE IF first.ref = "parent"
                THEN FinOut(s2, d1, sv, pe, sf, "SameFile", TRUE, FALSE)
                ELSE
                LET s3 == [s2 EXCEPT !.elements_path = TRUE]
                    lp == DedupLoop(s3.paths, 1, d1, TRUE)
                IN  IF ~lp.ok
                    THEN FinOut(s3, lp.disk, sv, lp.parentElems, sf,
                                "FileNotFound", TRUE, FALSE)
                    ELSE
                    LET g == generate_surrogate_model(s3, fitOk)
                    IN  IF g.raised
                        THEN FinOut(g.sol, lp.disk, sv, lp.parentElems,
                                    sf \/ g.file, "FitError", TRUE, TRUE)
                        ELSE
                        LET s4 == [g.sol EXCEPT !.is_finalized = TRUE]
                        IN  FinOut(s4, lp.disk, <<s4>>, lp.parentElems,
                                   sf \/ g.file, "ok", TRUE, TRUE)

\* SolParamEEGLeadfield.finalize
finalize_leadfield(s, d, sv, pe, sf) ==
    LET s1 == [s EXCEPT !.paths = get_sub_file(d)]
    IN  IF ~AllLoadable(d, s1.paths)
        THEN FinOut(s1, d, sv, pe, sf, "FileNotFound", TRUE, FALSE)
        ELSE IF Len(s1.paths) = 0
        THEN FinOut(s1, d, sv, pe, sf, "IndexError", TRUE, FALSE)
        ELSE LET first == FirstSub(d, s1.paths)
                 s2 == [s1 EXCEPT !.shape = ShapeOf(first),
                                  !.sensors = SensorsOf(first)]
             IN  FinOut(s2, d, <<s2>>, pe, sf, "ok", TRUE, FALSE)

\* SolParamHDTDCSSim.finalize
finalize_hdtdcs(s, d, sv, pe, sf) ==
    LET s1 == [s EXCEPT !.paths = get_sub_file(d)]
    IN  FinOut(s1, d, <<s1>>, pe, sf, "ok", TRUE, FALSE)

finalize(k, s, d, sv, pe, sf, clean, fitOk) ==
    IF k = "forward" THEN finalize_forward(s, d, sv, pe, sf, clean, fitOk)
    ELSE IF k = "leadfield" THEN finalize_leadfield(s, d, sv, pe, sf)
    ELSE finalize_hdtdcs(s, d, sv, pe, sf)

FinRaised(r) == r.out \notin {"ok", "noop"}

\* ------------------------------------------------------------------ state
VARIABLES
    kind,           \* problem/solution family
    method,         \* requested execution mode
    n_proc,         \* requested number of worker processes
    n_evals,        \* requested number of evaluation points
    skip,           \* requested skip offset
    prob,           \* the parametric problem
    disk0,          \* listing of the solution directory when dispatch starts
    pc,             \* position of the dispatching call
    err,            \* error raised to the caller of dispatch ("" when none)
    params,         \* evaluation points, per parameter name
    sub_probs,      \* generated sub-problems
    sol,            \* in-memory parametric solution
    saved,          \* persisted record of the parametric solution, <<>> if none
    disk,           \* listing of the solution directory
    parentElems,    \* <name>_elements.npz exists in the solution directory
    surrogateFile,  \* <name>_surrogate.bin exists in the solution directory
    started,        \* indices handed to the solver, in submission order
    running,        \* indices being solved
    solved,         \* indices whose solve returned a sub-solution
    failed,         \* indices whose solve raised
    described,      \* number of job scripts written
    finalizeLog,    \* history: one record per finalize() call
    smp,            \* the sampler called on its own: arguments and results
    thin,           \* a run of a spatial thinning routine
    surr,           \* a scalar surrogate and the requests for its Sobol indices
    getdp,          \* one run of the external solver for a sub-problem
    chk,            \* dispatch of a problem whose tissues may lack a property
    scan,           \* one discovery scan of a solution directory
    pred            \* one call of predict_sol of a leadfield surrogate

cfgVars == <<kind, method, n_proc, n_evals, skip, prob, disk0>>
prepVars == <<params, sub_probs>>
solVars == <<sol, saved, parentElems, surrogateFile>>
poolVars == <<started, running, solved, failed>>
mainVars == <<cfgVars, pc, err, prepVars, solVars, disk, poolVars, described,
              finalizeLog>>
compVars == <<smp, thin, surr, getdp, chk, scan, pred>>
vars == <<mainVars, compVars>>

\* --------------------------------------------------------- initial states
\* The components checked on their own are not in use during a dispatch.
NoOut == [state |-> "none", cols |-> <<>>]

SmpIdle ==
    [k |-> "forward", pb |-> <<>>, n |-> 0, skp |-> 0, direct |-> NoOut,
     base |-> NoOut, shift |-> NoOut]

ThinIdle == [pc |-> "idle"]

SurrIdle == [pc |-> "idle"]

RunIdle == [pc |-> "idle"]

ChkIdle == [pc |-> "idle"]

ScanIdle == [pc |-> "idle"]

PredIdle == [pc |-> "idle"]

DistChoices == [1..2 -> {TYPE_CONSTANT, TYPE_UNIFORM}]

StaleOptions == {"none", "left", "finalized"}

\* Sub-solutions 0..MaxStale-1 of an earlier run of the same solution name,
\* as that run left them: before its finalize() ("left") or after it
\* ("finalized": the forward family moved the elements file to the parent).
StaleEntry(k, opt, i) ==
    IF k = "forward" /\ opt = "finalized"
    THEN [SubDir(i, 0) EXCEPT !.elems = FALSE, !.ref = "parent"]
    ELSE SubDir(i, 0)

StaleDisk(k, opt) ==
    IF opt = "none" THEN <<>>
    ELSE [t \in 1..MaxStale |-> StaleEntry(k, opt, t - 1)]

StaleSol(k, opt) ==
    [NewSol EXCEPT !.paths = NamesOf(StaleDisk(k, opt)),
                   !.shape = IF k = "hdtdcs" THEN -1 ELSE 0,
                   !.sensors = IF k = "hdtdcs" THEN -1 ELSE 0,
                   !.is_finalized = (k = "forward"),
                   !.elements_path = (k = "forward"),
                   !.surrogate_model_path = (k = "forward")]

Init ==
    /\ kind \in Kinds
    /\ method \in Methods
    /\ n_proc \in 1..MaxProc
    /\ n_evals \in 1..MaxEvals
    /\ skip \in 0..MaxSkip
    /\ \E dists \in DistChoices : prob = MkProb(kind, dists)
    /\ \E opt \in StaleOptions :
          /\ disk = StaleDisk(kind, opt)
          /\ saved = IF opt = "finalized" THEN <<StaleSol(kind, opt)>> ELSE <<>>
          /\ parentElems = (kind = "forward" /\ opt = "finalized")
          /\ surrogateFile = (kind = "forward" /\ opt = "finalized")
    /\ disk0 = disk
    /\ pc = "check"
    /\ err = ""
    /\ params = <<>>
    /\ sub_probs = <<>>
    /\ sol = NoSol
    /\ started = <<>>
    /\ running = {}
    /\ solved = {}
    /\ failed = {}
    /\ described = 0
    /\ finalizeLog = <<>>
    /\ smp = SmpIdle
    /\ thin = ThinIdle
    /\ surr = SurrIdle
    /\ getdp = RunIdle
    /\ chk = ChkIdle
    /\ scan = ScanIdle
    /\ pred = PredIdle

\* ---------------------------------------------------------------- dispatch
\* Order of the steps of solve() before the sub-problems are handed out.
\* The forward family creates and saves the solution before sampling; the
\* others create it after the sub-problems are built.
PhaseAfter(k, p) ==
    IF k = "forward"
    THEN CASE p = "check" -> "create" [] p = "create" -> "sample"
           [] p = "sample" -> "build" [] OTHER -> "solve"
    ELSE CASE p = "check" -> "sample" [] p = "sample" -> "build"
           [] p = "build" -> "create" [] OTHER -> "solve"

\* Which branch of the method switch is taken.  The forward family tests
\* `method == METHOD_SEQ or n_process == 1` first.
Branch(k, m, np) ==
    IF k = "forward"
    THEN IF m = METHOD_SEQ \/ np = 1 THEN "seq"
         ELSE IF m = METHOD_MUL THEN "pool" ELSE "py"
    ELSE IF m = METHOD_SEQ THEN "seq"
         ELSE IF m = METHOD_MUL THEN "pool" ELSE "py"

\* Exit-code handling of a sub-problem solve: EEGForwardProblem.solve and
\* EEGSimulationProblem.solve swallow CalledProcessError when the code is 1;
\* _run_getdp raises on every non-zero code.
SolverOk(k, code) ==
    IF k \in {"forward", "simulation"} THEN code \in {0, 1} ELSE code = 0

\* check_settings / _check_components
Check ==
    /\ pc = "check"
    /\ pc' = PhaseAfter(kind, pc)
    /\ UNCHANGED <<cfgVars, compVars, err, prepVars, solVars, disk, poolVars, described,
                   finalizeLog>>

\* The solution object is constructed; the forward family saves it at once.
CreateSol ==
    /\ pc = "create"
    /\ sol' = NewSol
    /\ saved' = IF kind = "forward" THEN <<NewSol>> ELSE saved
    /\ pc' = PhaseAfter(kind, pc)
    /\ UNCHANGED <<cfgVars, compVars, err, prepVars, parentElems, surrogateFile, disk,
                   poolVars, described, finalizeLog>>

\* _gen_params / _generate_evaluation_points
Sample ==
    /\ pc = "sample"
    /\ IF NoVarying(prob)
       THEN /\ pc' = "failed"
            /\ err' = "NoVarying"
            /\ UNCHANGED params
       ELSE /\ pc' = PhaseAfter(kind, pc)
            /\ params' = gen_params(kind, prob, n_evals, SkipArg(kind, skip))
            /\ UNCHANGED err
    /\ UNCHANGED <<cfgVars, compVars, sub_probs, solVars, disk, poolVars, described,
                   finalizeLog>>

\* _gen_sub_probs / _generate_sub_problems
Build ==
    /\ pc = "build"
    /\ sub_probs' = gen_sub_probs(kind, prob, params, n_evals)
    /\ pc' = PhaseAfter(kind, pc)
    /\ UNCHANGED <<cfgVars, compVars, err, params, solVars, disk, poolVars, described,
                   finalizeLog>>

\* Mutant: sub-problems are handed out without waiting for a free slot.
CanStartAny(b, run, np) == TRUE

\* Mutant: the sequential branch hands sub-problems out as the pool does.
CanStartPool(b, run, np) == Cardinality(run) < np

\* May the next sub-problem be handed to the solver?  starmap over the
\* generator solves one at a time; the pool keeps n_proc workers busy.
CanStart(b, run, np) ==
    IF b = "seq" THEN run = {} ELSE Cardinality(run) < np

\* A sub-problem is handed to the solver.  The forward family constructs the
\* sub-solution object, hence its directory, before the solver runs.
SolveStart(i) ==
    /\ pc = "solve"
    /\ Branch(kind, method, n_proc) \in {"seq", "pool"}
    /\ i = Len(started)
    /\ i < Len(sub_probs)
    /\ CanStart(Branch(kind, method, n_proc), running, n_proc)
    /\ started' = Append(started, i)
    /\ running' = running \cup {i}
    /\ disk' = IF kind = "forward" THEN Mkdir(disk, SubName(i)) ELSE disk
    /\ UNCHANGED <<cfgVars, compVars, pc, err, prepVars, solVars, solved, failed,
                   described, finalizeLog>>

\* The solve of sub-problem i returns: the sub-solution is persisted under
\* its indexed name, or the solver's exit code raises.
SolveEnd(i, code) ==
    /\ pc = "solve"
    /\ i \in running
    /\ running' = running \ {i}
    /\ IF SolverOk(kind, code)
       THEN /\ disk' = Put(disk, SubDir(i, 1))
            /\ solved' = solved \cup {i}
            /\ UNCHANGED <<failed, pc, err>>
       ELSE /\ failed' = failed \cup {i}
            /\ IF Branch(kind, method, n_proc) = "seq"
               THEN pc' = "failed" /\ err' = "ExecutionError"
               ELSE UNCHANGED <<pc, err>>
            /\ UNCHANGED <<disk, solved>>
    /\ UNCHANGED <<cfgVars, compVars, prepVars, solVars, started, described, finalizeLog>>

\* starmap of the pool re-raises a worker's exception: at once or once every
\* task is done, depending on the interpreter; leaving the `with` block
\* terminates the workers that are still running.
PoolRaise ==
    /\ pc = "solve"
    /\ Branch(kind, method, n_proc) = "pool"
    /\ failed # {}
    /\ running' = {}
    /\ pc' = "failed"
    /\ err' = "ExecutionError"
    /\ UNCHANGED <<cfgVars, compVars, prepVars, solVars, disk, started, solved, failed,
                   described, finalizeLog>>

\* Entries the naming pattern <prefix>_<8 digits> designates.
IsSubSolutionDir(e) ==
    e.isDir /\ e.name.prefix = SolName /\ Len(e.name.digits) = IndexWidth
    /\ e.name.suffix = ""

LogEntry(by, r) ==
    [by |-> by, out |-> r.out, scanned |-> r.scanned, fitted |-> r.fitted,
     matched |-> Len(SelectSeq(disk, IsSubSolutionDir)),
     wasFinalized |-> \E k \in 1..Len(finalizeLog) : finalizeLog[k].out = "ok"]

ApplyFinalize(by, r) ==
    /\ sol' = r.sol
    /\ disk' = r.disk
    /\ saved' = r.saved
    /\ parentElems' = r.parentElems
    /\ surrogateFile' = r.surrogateFile
    /\ finalizeLog' = Append(finalizeLog, LogEntry(by, r))

\* Mutant: an exception raised by a solve is swallowed.
AllSolvedSwallow(st, run, fl, n) == Len(st) = n /\ run = {}

\* Mutant: the results are not waited for (map_async without get()).
AllSolvedEarly(st, run, fl, n) == Len(st) = n /\ fl = {}

\* list(starmap(...)) has returned: every sub-problem was handed out, none is
\* running and none raised.
AllSolved(st, run, fl, n) == Len(st) = n /\ run = {} /\ fl = {}

\* Every sub-problem was solved: the dispatcher calls sol.finalize().
DispatchFinalize(fitOk) ==
    /\ pc = "solve"
    /\ Branch(kind, method, n_proc) \in {"seq", "pool"}
    /\ AllSolved(started, running, failed, Len(sub_probs))
    /\ LET r == finalize(kind, sol, disk, saved, parentElems, surrogateFile,
                         TRUE, fitOk)
       IN  /\ ApplyFinalize("dispatch", r)
           /\ pc' = IF FinRaised(r) THEN "failed" ELSE "done"
           /\ err' = IF FinRaised(r) THEN r.out ELSE err
    /\ UNCHANGED <<cfgVars, compVars, prepVars, poolVars, described>>

\* _gen_py_file / _print_single_sub_problem
GenPy(i) ==
    /\ pc = "solve"
    /\ Branch(kind, method, n_proc) = "py"
    /\ i = described
    /\ i < Len(sub_probs)
    /\ disk' = Put(disk, PyFile(i))
    /\ described' = described + 1
    /\ UNCHANGED <<cfgVars, compVars, pc, err, prepVars, solVars, poolVars, finalizeLog>>

\* Every script is written: solve() returns the un-finalized solution.
JobsReturn ==
    /\ pc = "solve"
    /\ Branch(kind, method, n_proc) = "py"
    /\ described = Len(sub_probs)
    /\ pc' = "done"
    /\ UNCHANGED <<cfgVars, compVars, err, prepVars, solVars, disk, poolVars, described,
                   finalizeLog>>

\* ------------------------------------------------------------ after dispatch
Returned == pc \in {"done", "failed"}

NManual == Cardinality({k \in 1..Len(finalizeLog) : finalizeLog[k].by = "manual"})

\* The caller invokes finalize() on the solution.
ManualFinalize(clean, fitOk) ==
    /\ Returned
    /\ sol.created
    /\ NManual < MaxManual
    /\ ApplyFinalize("manual", finalize(kind, sol, disk, saved, parentElems,
                                        surrogateFile, clean, fitOk))
    /\ UNCHANGED <<cfgVars, compVars, pc, err, prepVars, poolVars, described>>

\* A job script written by dispatch is run outside the program and persists
\* its sub-solution.
ExternalJob(i) ==
    /\ Returned
    /\ HasEntry(disk, PyName(i))
    /\ ~(HasEntry(disk, SubName(i)) /\ EntryOf(disk, SubName(i)).gen = 2)
    /\ disk' = Put(disk, SubDir(i, 2))
    /\ UNCHANGED <<cfgVars, compVars, pc, err, prepVars, solVars, poolVars, described,
                   finalizeLog>>

\* The user removes a sub-solution directory.
RemoveSubDir(k) ==
    /\ Returned
    /\ k \in 1..Len(disk)
    /\ disk[k].isDir
    /\ disk' = SubSeq(disk, 1, k - 1) \o SubSeq(disk, k + 1, Len(disk))
    /\ UNCHANGED <<cfgVars, compVars, pc, err, prepVars, solVars, poolVars, described,
                   finalizeLog>>

Next ==
    \/ Check
    \/ CreateSol
    \/ Sample
    \/ Build
    \/ \E i \in 0..(n_evals - 1) : SolveStart(i)
    \/ \E i \in 0..(n_evals - 1), code \in ExitCodes : SolveEnd(i, code)
    \/ PoolRaise
    \/ \E fitOk \in BOOLEAN : DispatchFinalize(fitOk)
    \/ \E i \in 0..(n_evals - 1) : GenPy(i)
    \/ JobsReturn
    \/ \E clean \in BOOLEAN, fitOk \in BOOLEAN : ManualFinalize(clean, fitOk)
    \/ \E i \in 0..(n_evals - 1) : ExternalJob(i)
    \/ \E k \in 1..Len(disk) : RemoveSubDir(k)

Spec == Init /\ [][Next]_vars

\* ============================================================ the sampler alone
\* No dispatch is under way while a component is exercised on its own.
MainIdle ==
    /\ kind = "forward"
    /\ method = METHOD_SEQ
    /\ n_proc = 1
    /\ n_evals = 1
    /\ skip = 0
    /\ prob = MkProb("forward", <<TYPE_CONSTANT, TYPE_CONSTANT>>)
    /\ disk0 = <<>>
    /\ pc = "idle"
    /\ err = ""
    /\ params = <<>>
    /\ sub_probs = <<>>
    /\ sol = NoSol
    /\ saved = <<>>
    /\ disk = <<>>
    /\ parentElems = FALSE
    /\ surrogateFile = FALSE
    /\ started = <<>>
    /\ running = {}
    /\ solved = {}
    /\ failed = {}
    /\ described = 0
    /\ finalizeLog = <<>>

\* Parameter lists handed to the sampler: three tissue properties, each with
\* its own constant and any of the distribution types.
SmpNames == <<"sigmas.A", "sigmas.B", "sigmas.C">>

SmpTypes == {TYPE_CONSTANT, TYPE_UNIFORM, TYPE_NORMAL}

SmpProb(dists) ==
    [params |-> [c \in 1..Len(SmpNames) |->
                    [name |-> SmpNames[c], dist |-> dists[c], val |-> 10 + c,
                     field |-> "none"]],
     reference |-> "ref", markers |-> "mrk", rois |-> "roi"]

\* One call of _gen_params / _generate_evaluation_points
SmpCall(k, pb, n, skp) ==
    IF NoVarying(pb) THEN [state |-> "raised", cols |-> <<>>]
    ELSE [state |-> "ok", cols |-> gen_params(k, pb, n, skp)]

SmpInit ==
    /\ MainIdle
    /\ pred = PredIdle
    /\ scan = ScanIdle
    /\ chk = ChkIdle
    /\ getdp = RunIdle
    /\ thin = ThinIdle
    /\ surr = SurrIdle
    /\ \E k \in Kinds, dists \in [1..Len(SmpNames) -> SmpTypes],
          n \in 1..MaxEvals, skp \in 0..MaxSkip :
          smp = [k |-> k, pb |-> SmpProb(dists), n |-> n, skp |-> skp,
                 direct |-> NoOut, base |-> NoOut, shift |-> NoOut]

\* sample(params, n, skip=skp)
SmpDirect ==
    /\ smp.direct.state = "none"
    /\ smp' = [smp EXCEPT !.direct = SmpCall(smp.k, smp.pb, smp.n, smp.skp)]
    /\ UNCHANGED <<mainVars, thin, surr, getdp, chk, scan, pred>>

\* sample(params, n, skip=0)
SmpBase ==
    /\ smp.base.state = "none"
    /\ smp' = [smp EXCEPT !.base = SmpCall(smp.k, smp.pb, smp.n, 0)]
    /\ UNCHANGED <<mainVars, thin, surr, getdp, chk, scan, pred>>

\* sample(params, n + skp, skip=skp)
SmpShift ==
    /\ smp.shift.state = "none"
    /\ smp' = [smp EXCEPT
                  !.shift = SmpCall(smp.k, smp.pb, smp.n + smp.skp, smp.skp)]
    /\ UNCHANGED <<mainVars, thin, surr, getdp, chk, scan, pred>>

SmpNext == SmpDirect \/ SmpBase \/ SmpShift

SmpSpec == SmpInit /\ [][SmpNext]_vars

\* ===================================================================== claims
FinalizedBefore == \E k \in 1..Len(finalizeLog) : finalizeLog[k].out = "ok"

FinalizeCalled == Len(finalizeLog') = Len(finalizeLog) + 1

DispatchFinalizeCount ==
    Cardinality({k \in 1..Len(finalizeLog) : finalizeLog[k].by = "dispatch"})

NoDup(seq) == \A a, b \in 1..Len(seq) : a # b => seq[a] # seq[b]

IndexSet(paths) == {DigitsValue(paths[k].digits) : k \in 1..Len(paths)}

WellFormedName(nm, i) ==
    /\ nm.prefix = SolName
    /\ nm.suffix = ""
    /\ Len(nm.digits) = 8
    /\ DigitsValue(nm.digits) = i

\* C1: a finalize() call on a solution on which finalize() has already
\* succeeded scans nothing, fits nothing and changes neither the in-memory
\* solution, nor its persisted record, nor any file.
C1_FinalizeIdempotent ==
    [][(FinalizeCalled /\ FinalizedBefore) =>
          /\ ~finalizeLog'[Len(finalizeLog')].scanned
          /\ ~finalizeLog'[Len(finalizeLog')].fitted
          /\ UNCHANGED <<sol, saved, disk, parentElems, surrogateFile>>]_vars

\* C2: a finalize() call on a not yet finalized solution whose directory holds
\* no entry matching the sub-solution pattern raises "no sub-solution found"
\* and leaves the solution un-finalized and its persisted record untouched.
C2_EmptyDirectoryFails ==
    [][(/\ FinalizeCalled
        /\ ~FinalizedBefore
        /\ ~sol.is_finalized
        /\ Len(SelectSeq(disk, IsSubSolutionDir)) = 0) =>
          /\ finalizeLog'[Len(finalizeLog')].out = "NoSubSolution"
          /\ ~sol'.is_finalized
          /\ saved' = saved]_vars

\* C3: in Sequential and Parallel mode, once the solve of a sub-problem has
\* failed, dispatch never completes normally, it returns the execution error,
\* it never calls finalize(), the solution stays un-finalized with an empty
\* reference list, and no index is handed to the solver twice.
C3_FailureAborts ==
    (method \in {METHOD_SEQ, METHOD_MUL} /\ failed # {}) =>
        /\ pc \in {"solve", "failed"}
        /\ (Returned => (pc = "failed" /\ err = "ExecutionError"))
        /\ DispatchFinalizeCount = 0
        /\ (NManual = 0 => (~sol.is_finalized /\ Len(sol.paths) = 0))
        /\ NoDup(started)

C3_Witness ==
    /\ method = METHOD_MUL
    /\ pc = "failed"
    /\ err = "ExecutionError"
    /\ solved # {}

\* C4: in Sequential mode the sub-problems are handed to the solver in
\* ascending index order, one at a time, each only after its predecessor
\* returned; a solved sub-problem i is persisted under <prefix>_<i:08d>; and
\* finalize() is called by dispatch exactly once, after all N solves returned.
C4_SequentialOrder ==
    method = METHOD_SEQ =>
        /\ \A k \in 1..Len(started) : started[k] = k - 1
        /\ Cardinality(running) <= 1
        /\ \A k \in 1..Len(started) : started[k] \in running => k = Len(started)
        /\ \A k \in 1..(Len(started) - 1) : started[k] \in solved
        /\ pc = "solve" =>
              \A i \in solved : \E e \in Range(disk) :
                  e.isDir /\ e.json /\ e.gen = 1 /\ WellFormedName(e.name, i)
        /\ DispatchFinalizeCount <= 1
        /\ DispatchFinalizeCount = 1 =>
              (solved = 0..(n_evals - 1) /\ running = {})
        /\ pc = "done" => DispatchFinalizeCount = 1

C4_Witness == method = METHOD_SEQ /\ pc = "done" /\ n_evals >= 2

\* C5: whatever the order in which the workers complete, the reference list
\* stored by the dispatcher's finalize() is strictly ascending in the
\* sub-problem index and holds exactly the indices 0..N-1 and those found in
\* the directory at dispatch start; Sequential mode stores the same list.
ExpectedIndices ==
    (0..(n_evals - 1)) \cup IndexSet(NamesOf(disk0))

C5_ParallelOrderIndependent ==
    (pc = "done" /\ NManual = 0 /\ method \in {METHOD_SEQ, METHOD_MUL}) =>
        /\ \A k \in 1..(Len(sol.paths) - 1) :
              DigitsValue(sol.paths[k].digits) < DigitsValue(sol.paths[k + 1].digits)
        /\ \A k \in 1..Len(sol.paths) :
              WellFormedName(sol.paths[k], DigitsValue(sol.paths[k].digits))
        /\ IndexSet(sol.paths) = ExpectedIndices

\* Workers completed out of index order: the directory lists a higher index
\* before a lower one.
C5_Witness ==
    /\ method = METHOD_MUL
    /\ pc = "done"
    /\ NManual = 0
    /\ \E k \in 1..(Len(disk) - 1) :
          DigitsValue(disk[k].name.digits) > DigitsValue(disk[k + 1].name.digits)

\* C6: in Parallel mode no worker is solving once dispatch has returned or
\* once finalize() has been called, and the dispatcher's finalize() runs only
\* when all N sub-problems are solved.
C6_PoolBarrier ==
    method = METHOD_MUL =>
        /\ Returned => running = {}
        /\ Len(finalizeLog) > 0 => running = {}
        /\ DispatchFinalizeCount > 0 => solved = 0..(n_evals - 1)

C6_Witness ==
    /\ method = METHOD_MUL
    /\ n_proc >= 2
    /\ n_evals >= 2
    /\ DispatchFinalizeCount = 1

\* C7: in Deferred mode, for every worker count, no sub-problem is handed to
\* the solver, dispatch does not call finalize(), raises no solver error,
\* leaves the solution un-finalized and has written N scripts when it returns.
C7_DeferredSolvesNothing ==
    method = METHOD_JOB =>
        /\ Len(started) = 0
        /\ DispatchFinalizeCount = 0
        /\ err # "ExecutionError"
        /\ NManual = 0 => ~sol.is_finalized
        /\ pc = "done" => described = n_evals

\* C8: after a successful Sequential or Parallel dispatch the solution holds
\* exactly N references, one per index in 0..N-1, whatever the directory held.
C8_ExactlyNReferences ==
    (pc = "done" /\ NManual = 0 /\ method \in {METHOD_SEQ, METHOD_MUL}) =>
        /\ Len(sol.paths) = n_evals
        /\ IndexSet(sol.paths) = 0..(n_evals - 1)

\* C9: dispatch builds exactly N sub-problems; sub-problem i holds, for every
\* parameter, element i of its sampled array if it varies and its constant if
\* it is fixed, and the parametric problem's field references, reference,
\* markers and regions of interest.
C9_SubProblemValues ==
    /\ pc \in {"solve", "done"} => Len(sub_probs) = n_evals
    /\ Len(sub_probs) > 0 =>
          /\ Len(sub_probs) = n_evals
          /\ \A i \in 0..(n_evals - 1) : \A c \in 1..Len(prob.params) :
                LET p == prob.params[c]
                    sp == sub_probs[i + 1]
                IN  /\ sp.vals[p.name] =
                          IF p.dist = TYPE_CONSTANT
                          THEN [src |-> "const", a |-> 0, b |-> p.val]
                          ELSE params[p.name].vals[i + 1]
                    /\ sp.fields[p.name] = p.field
                    /\ sp.reference = prob.reference
                    /\ sp.markers = prob.markers
                    /\ sp.rois = prob.rois

C9_Witness ==
    /\ Len(sub_probs) >= 2
    /\ \E c \in 1..Len(prob.params) : prob.params[c].dist = TYPE_CONSTANT
    /\ \E c \in 1..Len(prob.params) : prob.params[c].dist # TYPE_CONSTANT

\* C10: when every parameter is constant, dispatch never gets past sampling in
\* any mode: it fails with the sampling error, and no sub-problem is built,
\* handed to the solver or described.
AllConstant == \A c \in 1..Len(prob.params) : prob.params[c].dist = TYPE_CONSTANT

C10_NoVaryingFailsFast ==
    AllConstant =>
        /\ pc \in {"check", "create", "sample", "failed"}
        /\ pc = "failed" => err = "NoVarying"
        /\ Len(sub_probs) = 0
        /\ Len(started) = 0
        /\ described = 0

C10_Witness ==
    /\ AllConstant
    /\ method = METHOD_JOB
    /\ pc = "failed"
    /\ err = "NoVarying"

\* ============================================================ spatial thinning
\* get_equally_spaced_elements ("mesh"), get_elems_subset ("onelab") and
\* EEGForwardProblem._reduce_source_density ("forward") on a sequence of
\* points of the plane; a point is designated by its tag, its position in the
\* input.  Distances are compared through their squares: d2 is the square
\* of the minimum separation.
Points == (0..MaxCoord) \X (0..MaxCoord)

DistSq(p, q) ==
    (p[1] - q[1]) * (p[1] - q[1]) + (p[2] - q[2]) * (p[2] - q[2])

\* cdist([current], coords) restricted to the remaining candidates
DistTo(pts, cur, pool) == [k \in 1..Len(pool) |-> DistSq(pts[cur], pts[pool[k]])]

Positions(seq) == [k \in 1..Len(seq) |-> k]

\* arr[keep]
TakeAt(seq, pos) == [j \in 1..Len(pos) |-> seq[pos[j]]]

\* np.delete(arr, idx) for integer indices, or for a boolean array treated
\* as a mask (NumPy from 1.19 on)
DeleteMask(seq, mask) ==
    TakeAt(seq, SelectSeq(Positions(seq), LAMBDA k : ~mask[k]))

\* np.delete(arr, idx) for a boolean array before NumPy 1.19: the booleans
\* are cast to the indices 0 and 1, and an index out of bounds is ignored.
DeleteCast(seq, mask) ==
    LET hit == {1 + (IF mask[k] THEN 1 ELSE 0) : k \in 1..Len(mask)}
    IN  TakeAt(seq, SelectSeq(Positions(seq), LAMBDA k : k \notin hit))

np_delete_bool(seq, mask, asMask) ==
    IF asMask THEN DeleteMask(seq, mask) ELSE DeleteCast(seq, mask)

\* np.argmin(distances): the first position of the minimum
ArgMin(ds) ==
    CHOOSE k \in 1..Len(ds) :
        /\ \A m \in 1..Len(ds) : ds[k] <= ds[m]
        /\ \A m \in 1..(k - 1) : ds[m] > ds[k]

\* One iteration of the loop of get_equally_spaced_elements and of
\* get_elems_subset: the candidates closer than d to the current point are
\* deleted, the nearest candidate left becomes the current point.
near_iteration(th) ==
    LET ds == DistTo(th.pts, th.cur, th.pool)
        mask == [k \in 1..Len(ds) |-> ds[k] < th.d2]
        pool1 == IF th.routine = "onelab"
                 THEN np_delete_bool(th.pool, mask, th.asMask)
                 ELSE DeleteMask(th.pool, mask)
        ds1 == IF th.routine = "onelab"
               THEN np_delete_bool(ds, mask, th.asMask)
               ELSE DeleteMask(ds, mask)
    IN  IF Len(pool1) = 0
        THEN [th EXCEPT !.pool = pool1, !.pc = "returned", !.out = th.kept]
        ELSE [th EXCEPT !.pool = pool1,
                        !.kept = Append(th.kept, pool1[ArgMin(ds1)]),
                        !.cur = pool1[ArgMin(ds1)]]

\* The inner loop of _reduce_source_density: the candidates are visited by
\* increasing distance to the point the distances were computed from, until
\* one is found that was not used; np.min of an empty selection raises.
RECURSIVE new_current(_, _, _, _, _)
new_current(pool, ds, used, tag, thr) ==
    IF ~(tag \in Range(used) /\ Len(used) # Len(pool))
    THEN [tag |-> tag, raised |-> FALSE]
    ELSE LET far == {k \in 1..Len(ds) : ds[k] > thr}
         IN  IF far = {}
             THEN [tag |-> tag, raised |-> TRUE]
             ELSE LET k0 == CHOOSE k \in far :
                               /\ \A m \in far : ds[k] <= ds[m]
                               /\ \A m \in far : ds[m] = ds[k] => k <= m
                  IN  new_current(pool, ds, used, pool[k0], ds[k0])

\* One iteration of the outer loop of _reduce_source_density.
forward_iteration(th) ==
    LET ds == DistTo(th.pts, th.cur, th.pool)
        mask == [k \in 1..Len(ds) |-> ds[k] <= th.d2 /\ ds[k] # 0]
        pool1 == DeleteMask(th.pool, mask)
        ds1 == DeleteMask(ds, mask)
        used1 == Append(th.used, th.cur)
        nc == new_current(pool1, ds1, used1, th.cur, th.d2)
    IN  IF nc.raised
        THEN [th EXCEPT !.pool = pool1, !.used = used1, !.pc = "raised"]
        ELSE IF Len(used1) = Len(pool1)
        THEN [th EXCEPT !.pool = pool1, !.used = used1, !.cur = nc.tag,
                        !.pc = "returned", !.out = pool1]
        ELSE [th EXCEPT !.pool = pool1, !.used = used1, !.cur = nc.tag]

ThinRoutines == {"mesh", "onelab", "forward"}

\* The state on entry of the loop: the first point is the current one, and
\* is already kept by the two routines that build the list of kept points.
ThinStart(r, asMask, pts, d2) ==
    [routine |-> r, asMask |-> asMask, pts |-> pts, d2 |-> d2, pc |-> "loop",
     pool |-> Positions(pts), cur |-> 1,
     kept |-> IF r = "forward" THEN <<>> ELSE <<1>>,
     used |-> <<>>, out |-> <<>>]

ThinInit ==
    /\ MainIdle
    /\ pred = PredIdle
    /\ scan = ScanIdle
    /\ chk = ChkIdle
    /\ getdp = RunIdle
    /\ smp = SmpIdle
    /\ surr = SurrIdle
    /\ \E r \in ThinRoutines, asMask \in BOOLEAN, n \in 1..MaxPts,
          d2 \in 0..MaxDistSq :
          \E pts \in [1..n -> Points] :
              /\ r # "onelab" => asMask
              /\ thin = ThinStart(r, asMask, pts, d2)

\* while all_tags.size > 0 / while elems_tags.size > 0.  The list of kept
\* points is followed up to one point more than the input holds.
NearStep ==
    /\ thin.pc = "loop"
    /\ thin.routine \in {"mesh", "onelab"}
    /\ Len(thin.kept) <= Len(thin.pts)
    /\ thin' = near_iteration(thin)
    /\ UNCHANGED <<mainVars, smp, surr, getdp, chk, scan, pred>>

\* while len(used) != element_tags.size
ForwardStep ==
    /\ thin.pc = "loop"
    /\ thin.routine = "forward"
    /\ thin' = forward_iteration(thin)
    /\ UNCHANGED <<mainVars, smp, surr, getdp, chk, scan, pred>>

ThinNext == NearStep \/ ForwardStep

ThinSpec == ThinInit /\ [][ThinNext]_vars

\* ---------------------------------------------------------------------
\* Sobol indices of a scalar surrogate (SurrScalar).  `surr` holds the
\* in-memory flag is_sobol_available, the flag in the saved JSON file, the
\* content of <name>_sobol.json, what the last call returned, what the
\* first gen_sobol returned, and how often saltelli.sample and predict ran.
\* ---------------------------------------------------------------------
SobolArgs == (1..MaxArg) \X (1..MaxArg) \X (1..MaxArg)

\* Python's None, the module SALib.analyze.sobol, and an index record.  The
\* indices computed by sobol.analyze depend on the sample size, the number
\* of resamples and the confidence level.
PyNone == [kind |-> "None", args |-> <<>>]

SobolModule == [kind |-> "module SALib.analyze.sobol", args |-> <<>>]

SobolIndices(n, n_resamples, conf_level) ==
    [kind |-> "indices", args |-> <<n, n_resamples, conf_level>>]

\* SurrScalar.get_sobol
get_sobol(su) == IF su.is_sobol_available THEN su.sobolFile ELSE PyNone

\* The early return of gen_sobol, `return sobol`: the name is bound to the
\* imported module, not to the record read into `indices`.
CachedReturn(indices) == SobolModule

\* Parametric solutions a surrogate is trained on: a finalized solution of
\* the leadfield or HD-tDCS family with n sub-solutions, in which at least
\* one conductivity varies (the Gaussian process is fitted on at least one
\* column).
IsSigma(p) == p.name # "current.val"

TrainSols ==
    {s \in [k : {"leadfield", "hdtdcs"}, dists : DistChoices, n : 1..MaxEvals] :
        \E c \in 1..2 : /\ IsSigma(MkProb(s.k, s.dists).params[c])
                        /\ IsVarying(MkProb(s.k, s.dists).params[c])}

\* The sub-solutions of a training solution, each with the values its
\* sub-problem was solved with.
SubSolsOf(s) ==
    gen_sub_probs(s.k, MkProb(s.k, s.dists),
                  gen_params(s.k, MkProb(s.k, s.dists), s.n, 0), s.n)

\* SolParamGetDP.get_params: the entries of self.sigmas whose distribution
\* is not constant, in the order of the dictionary.
get_params(s) ==
    SelectSeq(SelectSeq(MkProb(s.k, s.dists).params, IsSigma), IsVarying)

\* SolParamGetDP.get_x(sub_sol)
get_x(s, sub_sol) ==
    [c \in 1..Len(get_params(s)) |-> sub_sol.vals[get_params(s)[c].name]]

\* SurrMaskedScalar._get_data: one row of x for each sub-solution.
get_data(s) ==
    [x |-> [t \in 1..s.n |-> get_x(s, SubSolsOf(s)[t])],
     params |-> get_params(s)]

\* Mutant: the constructor takes the flag of the surrogate found at the
\* location.
SurrFitted_keeps_flag(s, old) ==
    [pc |-> "ready", is_sobol_available |-> old.savedFlag,
     savedFlag |-> old.savedFlag,
     sobolFile |-> old.sobolFile, fileOf |-> old.fileOf,
     op |-> "fit", ret |-> PyNone, first |-> PyNone,
     gens |-> 0, samples |-> 0, predicts |-> 0, calls |-> old.calls + 1,
     fits |-> old.fits + 1, hadCache |-> old.savedFlag,
     sol |-> s, x |-> get_data(s).x, params |-> get_data(s).params]

\* SurrABC.fit(name, parent_path, sol) at a location that holds `old`: the
\* data are extracted, the process is fitted, a new object is constructed
\* from the parameters alone (is_sobol_available defaults to False) and
\* saved.  The directory is made with exist_ok=True and nothing in it is
\* removed: the file <name>_sobol.json of an earlier surrogate stays.
\* `fits` counts the fits at the location, `fileOf` is the fit whose model
\* the content of the Sobol file was computed from (0: no file), `hadCache`
\* tells whether the surrogate replaced by the fit had cached indices.
SurrFitted(s, old) ==
    [pc |-> "ready", is_sobol_available |-> FALSE, savedFlag |-> FALSE,
     sobolFile |-> old.sobolFile, fileOf |-> old.fileOf,
     op |-> "fit", ret |-> PyNone, first |-> PyNone,
     gens |-> 0, samples |-> 0, predicts |-> 0, calls |-> old.calls + 1,
     fits |-> old.fits + 1, hadCache |-> old.savedFlag,
     sol |-> s, x |-> get_data(s).x, params |-> get_data(s).params]

\* The location before the first fit.
NoSurr ==
    [savedFlag |-> FALSE, sobolFile |-> PyNone, fileOf |-> 0, calls |-> 0,
     fits |-> 0]

SurrInit ==
    /\ MainIdle
    /\ pred = PredIdle
    /\ scan = ScanIdle
    /\ chk = ChkIdle
    /\ getdp = RunIdle
    /\ smp = SmpIdle
    /\ thin = ThinIdle
    /\ \E s \in TrainSols : surr = SurrFitted(s, NoSurr)

\* A later SurrABC.fit under the same name and parent path.
Fit ==
    /\ surr.pc = "ready"
    /\ surr.calls < MaxCalls
    /\ \E s \in TrainSols : surr' = SurrFitted(s, surr)
    /\ UNCHANGED <<mainVars, smp, thin, getdp, chk, scan, pred>>

\* SurrScalar.gen_sobol(n, n_resamples, conf_level)
GenSobol ==
    /\ surr.pc = "ready"
    /\ surr.calls < MaxCalls
    /\ \E a \in SobolArgs :
          LET indices == get_sobol(surr)
              fresh == SobolIndices(a[1], a[2], a[3])
              ret == IF indices # PyNone THEN CachedReturn(indices) ELSE fresh
          IN  surr' = IF indices # PyNone
                THEN [surr EXCEPT !.op = "gen_sobol", !.ret = ret,
                                  !.gens = @ + 1, !.calls = @ + 1]
                ELSE [surr EXCEPT !.op = "gen_sobol", !.ret = ret,
                                  !.first = IF surr.gens = 0 THEN ret ELSE @,
                                  !.samples = @ + 1, !.predicts = @ + 1,
                                  !.sobolFile = fresh,
                                  !.fileOf = surr.fits,
                                  !.is_sobol_available = TRUE,
                                  !.savedFlag = TRUE,
                                  !.gens = @ + 1, !.calls = @ + 1]
    /\ UNCHANGED <<mainVars, smp, thin, getdp, chk, scan, pred>>

\* A direct call of SurrScalar.get_sobol.
GetSobol ==
    /\ surr.pc = "ready"
    /\ surr.calls < MaxCalls
    /\ surr' = [surr EXCEPT !.op = "get_sobol", !.ret = get_sobol(surr),
                            !.calls = @ + 1]
    /\ UNCHANGED <<mainVars, smp, thin, getdp, chk, scan, pred>>

\* SurrScalar.load(json_path): the object is rebuilt from its JSON file.
LoadSurr ==
    /\ surr.pc = "ready"
    /\ surr.calls < MaxCalls
    /\ surr' = [surr EXCEPT !.op = "load", !.ret = PyNone,
                            !.is_sobol_available = surr.savedFlag,
                            !.calls = @ + 1]
    /\ UNCHANGED <<mainVars, smp, thin, getdp, chk, scan, pred>>

SurrNext == Fit \/ GenSobol \/ GetSobol \/ LoadSurr

SurrSpec == SurrInit /\ [][SurrNext]_vars

\* ============================================= one run of the external solver
\* The single problems that run GetDP: EEGForwardProblem ("forward"),
\* EEGSimulationProblem ("simulation"), and the problems built on ProbGetDP,
\* which the leadfield and HD-tDCS families use.
SolverKinds == {"forward", "simulation", "leadfield", "hdtdcs"}

AllExitCodes == 0..MaxExit

RunInit ==
    /\ MainIdle
    /\ pred = PredIdle
    /\ scan = ScanIdle
    /\ chk = ChkIdle
    /\ smp = SmpIdle
    /\ thin = ThinIdle
    /\ surr = SurrIdle
    /\ \E k \in SolverKinds, code \in AllExitCodes :
          getdp = [pc |-> "running", kind |-> k, code |-> code]

\* GetDP exits: solve() goes on to build the sub-solution, or raises.
RunSolverReturns ==
    /\ getdp.pc = "running"
    /\ SolverOk(getdp.kind, getdp.code)
    /\ getdp' = [getdp EXCEPT !.pc = "solved"]
    /\ UNCHANGED <<mainVars, smp, thin, surr, chk, scan, pred>>

RunSolverRaises ==
    /\ getdp.pc = "running"
    /\ ~SolverOk(getdp.kind, getdp.code)
    /\ getdp' = [getdp EXCEPT !.pc = "raised"]
    /\ UNCHANGED <<mainVars, smp, thin, surr, chk, scan, pred>>

RunNext == RunSolverReturns \/ RunSolverRaises

RunSpec == RunInit /\ [][RunNext]_vars

\* ======================================== dispatch and the configuration check
\* The start of solve(), up to the first sub-problem handed to the solver or
\* described, for a model of two tissues and a problem that binds a
\* conductivity to some of them (`bound`).
Tissues == {"A", "B"}

\* CompTissueProp.check: for t in tissues.keys(): if t not in self: raise
TissuePropCheckRaises(bound) == Tissues \ bound # {}

\* check_settings (forward family) and _check_components of the parametric
\* problem: ProbParamHDTDCSSim checks grid, source, references and current,
\* not sigmas.
ParamCheckRaises(k, bound) ==
    IF k = "hdtdcs" THEN FALSE ELSE TissuePropCheckRaises(bound)

\* _check_components of the single problem, run by the solve of a
\* sub-problem: ProbGetDP checks sigmas.
SingleCheckRaises(k, bound) == TissuePropCheckRaises(bound)

ChkInit ==
    /\ MainIdle
    /\ pred = PredIdle
    /\ scan = ScanIdle
    /\ smp = SmpIdle
    /\ thin = ThinIdle
    /\ surr = SurrIdle
    /\ getdp = RunIdle
    /\ \E k \in Kinds, m \in Methods, np \in 1..MaxProc, bound \in SUBSET Tissues :
          chk = [kind |-> k, method |-> m, n_proc |-> np, bound |-> bound,
                 pc |-> "check", err |-> "", created |-> FALSE,
                 sampled |-> FALSE, built |-> FALSE, started |-> 0,
                 described |-> 0]

\* self.check_settings(model) / self._check_components(**model, **kwargs)
ChkCheck ==
    /\ chk.pc = "check"
    /\ chk' = IF ParamCheckRaises(chk.kind, chk.bound)
              THEN [chk EXCEPT !.pc = "failed", !.err = "NoProperty"]
              ELSE [chk EXCEPT !.pc = PhaseAfter(chk.kind, "check")]
    /\ UNCHANGED <<mainVars, smp, thin, surr, getdp, scan, pred>>

\* The steps between the check and the method switch.
ChkPrepare ==
    /\ chk.pc \in {"create", "sample", "build"}
    /\ chk' = [chk EXCEPT !.pc = PhaseAfter(chk.kind, chk.pc),
                          !.created = @ \/ chk.pc = "create",
                          !.sampled = @ \/ chk.pc = "sample",
                          !.built = @ \/ chk.pc = "build"]
    /\ UNCHANGED <<mainVars, smp, thin, surr, getdp, scan, pred>>

\* The first sub-problem is handed to the solver: its solve() starts with the
\* check of the single problem.
ChkSolveFirst ==
    /\ chk.pc = "solve"
    /\ Branch(chk.kind, chk.method, chk.n_proc) \in {"seq", "pool"}
    /\ chk' = IF SingleCheckRaises(chk.kind, chk.bound)
              THEN [chk EXCEPT !.started = 1, !.pc = "failed",
                               !.err = "NoProperty"]
              ELSE [chk EXCEPT !.started = 1, !.pc = "solving"]
    /\ UNCHANGED <<mainVars, smp, thin, surr, getdp, scan, pred>>

\* The first job script is written; nothing is checked.
ChkDescribeFirst ==
    /\ chk.pc = "solve"
    /\ Branch(chk.kind, chk.method, chk.n_proc) = "py"
    /\ chk' = [chk EXCEPT !.described = 1, !.pc = "describing"]
    /\ UNCHANGED <<mainVars, smp, thin, surr, getdp, scan, pred>>

ChkNext == ChkCheck \/ ChkPrepare \/ ChkSolveFirst \/ ChkDescribeFirst

ChkSpec == ChkInit /\ [][ChkNext]_vars

\* ================================== discovery of the sub-solution entries
\* The scan finalize() starts with, on a directory that holds one entry: a
\* directory or a regular file, named with the prefix of the solution or
\* another one, 7, 8 or 9 digits and possibly trailing characters.
\* ---------------------------------------------------------------------
ScanEntries ==
    {[name |-> [prefix |-> p, digits |-> ds, suffix |-> sf], isDir |-> dr,
      json |-> dr, elems |-> dr, ref |-> IF dr THEN "own" ELSE "none",
      gen |-> 0] :
        p \in {SolName, "other"},
        ds \in {Tail(Format08d(0)), Format08d(0), Format08d(0) \o <<0>>},
        sf \in {"", ".bak"}, dr \in BOOLEAN}

ScanInit ==
    /\ MainIdle
    /\ pred = PredIdle
    /\ smp = SmpIdle
    /\ thin = ThinIdle
    /\ surr = SurrIdle
    /\ getdp = RunIdle
    /\ chk = ChkIdle
    /\ \E k \in Kinds, e \in ScanEntries :
          scan = [pc |-> "listed", kind |-> k, dir |-> <<e>>, found |-> <<>>]

\* The first statements of ParametricForwardSolution.finalize, and
\* SolParamABC._get_sub_json_paths for the other families.
ScanDiscover ==
    /\ scan.pc = "listed"
    /\ scan' = [scan EXCEPT
          !.pc = "scanned",
          !.found = IF scan.kind = "forward"
                    THEN Sorted(NamesOf(SelectSeq(scan.dir, MatchForward)))
                    ELSE get_sub_file(scan.dir)]
    /\ UNCHANGED <<mainVars, smp, thin, surr, getdp, chk, pred>>

ScanSpec == ScanInit /\ [][ScanDiscover]_vars

\* ================================== solutions predicted by a surrogate
\* SurrEEGLeadfield.predict_sol(name, parent_path, x, skip).  The template
\* is the first sub-solution of the training solution.  `sigmas = {t: s for
\* t, s in sol.sigmas.items()}` builds a new dictionary around the lists of
\* the template, and every SolEEGLeadfield constructed in the loop stores
\* that dictionary itself (SolGetDP.__init__ keeps the reference it gets).
\* `lists` is the content of these shared lists, one value for each varying
\* parameter; an object that refers to them has sigmas = "lists".  `files`
\* are the JSON records written by save().
\* ---------------------------------------------------------------------
PredRows ==
    UNION {[1..m -> [1..j -> {1, 2}]] : m \in 1..MaxEvals, j \in 1..2}

TemplateRow(j) == [c \in 1..j |-> 0]

PredInit ==
    /\ MainIdle
    /\ smp = SmpIdle
    /\ thin = ThinIdle
    /\ surr = SurrIdle
    /\ getdp = RunIdle
    /\ chk = ChkIdle
    /\ scan = ScanIdle
    /\ \E x \in PredRows, skp \in 0..MaxSkip :
          pred = [pc |-> "loop", x |-> x, skip |-> skp, i |-> 0,
                  lists |-> TemplateRow(Len(x[1])),
                  template |-> [sigmas |-> "lists"],
                  sols |-> <<>>, files |-> <<>>]

\* One iteration of the loop: the row is written into the lists, the
\* solution is constructed around the dictionary, saved and appended.
PredStep ==
    /\ pred.pc = "loop"
    /\ LET i == pred.i
           nm == [prefix |-> SolName, digits |-> Format08d(i + pred.skip),
                  suffix |-> ""]
           row == pred.x[i + 1]
       IN  pred' = [pred EXCEPT
              !.lists = row,
              !.sols = Append(@, [name |-> nm, sigmas |-> "lists"]),
              !.files = Append(@, [name |-> nm, vals |-> row]),
              !.i = i + 1,
              !.pc = IF i + 1 = Len(pred.x) THEN "returned" ELSE "loop"]
    /\ UNCHANGED <<mainVars, smp, thin, surr, getdp, chk, scan>>

PredSpec == PredInit /\ [][PredStep]_vars

\* obj.sigmas[t][0] for the varying parameters t, in the order of the
\* surrogate's parameter list.
PredValuesOf(obj) == IF obj.sigmas = "lists" THEN pred.lists ELSE obj.sigmas

\* Number of non-constant, and of constant, parameters among the first c.
VaryingRank(pb, c) ==
    Cardinality({b \in 1..c : pb.params[b].dist # TYPE_CONSTANT})

FixedRank(pb, c) ==
    Cardinality({b \in 1..c : pb.params[b].dist = TYPE_CONSTANT})

SmpOutputs == {smp.direct, smp.base, smp.shift}

\* C11: the sampler of ProbParamABC splits the parameter list into the
\* constant and the non-constant parameters, each group in input order; the
\* Halton design has one coordinate per non-constant parameter, coordinate c
\* being drawn for the c-th of them; every constant parameter gets an array
\* whose elements all equal its constant.
C11_SamplerPartition ==
    LET pb == smp.pb
        fv == gen_fixed_varying(pb)
        np == Len(pb.params)
    IN  (smp.k # "forward" /\ np > 0) =>
        /\ Len(fv.fixed) = FixedRank(pb, np)
        /\ Len(fv.varying) = VaryingRank(pb, np)
        /\ \A c \in 1..np :
              IF pb.params[c].dist = TYPE_CONSTANT
              THEN fv.fixed[FixedRank(pb, c)] = pb.params[c]
              ELSE fv.varying[VaryingRank(pb, c)] = pb.params[c]
        /\ \A o \in SmpOutputs : o.state = "ok" =>
              /\ {o.cols[fv.varying[c].name].vals[1].a :
                     c \in 1..Len(fv.varying)} = 1..VaryingRank(pb, np)
              /\ \A c \in 1..np :
                    LET p == pb.params[c]
                        col == o.cols[p.name]
                    IN  /\ col.isArray
                        /\ Len(col.vals) = Len(o.cols[fv.varying[1].name].vals)
                        /\ \A t \in 1..Len(col.vals) :
                              IF p.dist = TYPE_CONSTANT
                              THEN col.vals[t] = [src |-> "const", a |-> 0, b |-> p.val]
                              ELSE /\ col.vals[t].src = "halton"
                                   /\ col.vals[t].a = VaryingRank(pb, c)

C11_Witness ==
    /\ smp.k = "leadfield"
    /\ smp.direct.state = "ok"
    /\ smp.pb.params[1].dist = TYPE_NORMAL
    /\ smp.pb.params[2].dist = TYPE_CONSTANT
    /\ smp.pb.params[3].dist = TYPE_UNIFORM

\* C12: for every N and skip passed to dispatch, the evaluation points handed
\* to the construction of the sub-problems are, for every parameter, an
\* array of exactly N values; those of a non-constant parameter are the
\* points skip..skip+N-1 of its coordinate of the Halton sequence.
C12_SamplerHandsNValues ==
    DOMAIN params # {} =>
        \A c \in 1..Len(prob.params) :
            LET p == prob.params[c]
                col == params[p.name]
            IN  /\ col.isArray
                /\ Len(col.vals) = n_evals
                /\ p.dist # TYPE_CONSTANT =>
                      \A t \in 1..Len(col.vals) :
                          col.vals[t] = [src |-> "halton",
                                         a |-> VaryingRank(prob, c),
                                         b |-> skip + t - 1]

Min2(a, b) == IF a < b THEN a ELSE b

\* C13: in every non-constant column, draw t of sample(params, N+skip,
\* skip=skip) is point skip+t-1 of the sequence, equals draw skip+t of
\* sample(params, N, skip=0), and equals draw t of a call with the same skip
\* and another length.
C13_SkipComposable ==
    \A c \in 1..Len(smp.pb.params) :
        LET p == smp.pb.params[c] IN
        p.dist # TYPE_CONSTANT =>
            /\ smp.shift.state = "ok" =>
                  \A t \in 1..Len(smp.shift.cols[p.name].vals) :
                      smp.shift.cols[p.name].vals[t] =
                          [src |-> "halton", a |-> VaryingRank(smp.pb, c),
                           b |-> smp.skp + t - 1]
            /\ (smp.shift.state = "ok" /\ smp.base.state = "ok") =>
                  /\ Len(smp.shift.cols[p.name].vals) >= smp.n - smp.skp
                  /\ Len(smp.base.cols[p.name].vals) = smp.n
                  /\ \A t \in 1..(smp.n - smp.skp) :
                        smp.shift.cols[p.name].vals[t] =
                            smp.base.cols[p.name].vals[smp.skp + t]
            /\ (smp.shift.state = "ok" /\ smp.direct.state = "ok") =>
                  \A t \in 1..Min2(Len(smp.shift.cols[p.name].vals),
                                    Len(smp.direct.cols[p.name].vals)) :
                      smp.shift.cols[p.name].vals[t] =
                          smp.direct.cols[p.name].vals[t]

C13_Witness ==
    /\ smp.shift.state = "ok"
    /\ smp.base.state = "ok"
    /\ smp.direct.state = "ok"
    /\ smp.skp >= 1
    /\ smp.n > smp.skp

LastFinalize == finalizeLog[Len(finalizeLog)]

\* C14: a finalize() call of the forward or leadfield family that succeeds
\* leaves on the solution the shape and the sensors recorded in the first
\* element of its sorted reference list, which is the sub-solution of lowest
\* name found, sub-solution 0 whenever the directory holds it.
C14_CommonDataFromFirst ==
    [][(/\ FinalizeCalled
        /\ kind \in {"forward", "leadfield"}
        /\ finalizeLog'[Len(finalizeLog')].out = "ok") =>
          /\ Len(sol'.paths) > 0
          /\ HasEntry(disk', sol'.paths[1])
          /\ sol'.shape = ShapeOf(EntryOf(disk', sol'.paths[1]))
          /\ sol'.sensors = SensorsOf(EntryOf(disk', sol'.paths[1]))
          /\ saved'[1].shape = sol'.shape
          /\ saved'[1].sensors = sol'.sensors
          /\ \A k \in 2..Len(sol'.paths) : NameLess(sol'.paths[1], sol'.paths[k])
          /\ HasEntry(disk, SubName(0)) => sol'.paths[1] = SubName(0)]_vars

\* A finalize() has just succeeded over sub-solutions of two different runs.
C14_Witness ==
    /\ kind \in {"forward", "leadfield"}
    /\ Len(finalizeLog) > 0
    /\ LastFinalize.out = "ok"
    /\ Len(sol.paths) >= 2
    /\ \A k \in 1..Len(sol.paths) : HasEntry(disk, sol.paths[k])
    /\ ShapeOf(EntryOf(disk, sol.paths[1])) #
          ShapeOf(EntryOf(disk, sol.paths[Len(sol.paths)]))
    /\ sol.shape = ShapeOf(EntryOf(disk, sol.paths[1]))

ThinReturned == thin.pc = "returned"

\* C15: when a thinning routine returns for a separation d > 0, any two of
\* the points it retained are at distance d or more from each other.
C15_ThinningSeparation ==
    (ThinReturned /\ thin.d2 > 0) =>
        \A a, b \in 1..Len(thin.out) :
            a # b => DistSq(thin.pts[thin.out[a]], thin.pts[thin.out[b]])
                        >= thin.d2

\* C16: when a thinning routine returns for a separation d > 0, every input
\* point it did not retain is within d of a retained point, the first input
\* point is retained, and no point is retained twice.
C16_ThinningCoverage ==
    (ThinReturned /\ thin.d2 > 0) =>
        /\ \A t \in 1..Len(thin.pts) :
              t \notin Range(thin.out) =>
                  \E r \in Range(thin.out) :
                      DistSq(thin.pts[t], thin.pts[r]) <= thin.d2
        /\ 1 \in Range(thin.out)
        /\ NoDup(thin.out)

\* C17: on every non-empty input, coincident points and d = 0 included, a
\* thinning routine does not raise, and its loop does not go on keeping
\* points once it has kept as many as the input holds.
C17_ThinningTerminates ==
    /\ thin.pc # "raised"
    /\ Len(thin.kept) <= Len(thin.pts)

\* C18: once gen_sobol has computed the indices of a surrogate, a later
\* gen_sobol on it, whatever its arguments and also after the surrogate was
\* loaded again, returns the record the first call returned, and neither
\* saltelli.sample nor predict runs a second time.
C18_SobolCached ==
    (surr.pc = "ready" /\ surr.op = "gen_sobol" /\ surr.gens >= 2) =>
        /\ surr.ret = surr.first
        /\ surr.samples = 1
        /\ surr.predicts = 1

Persisted(s) == \E k \in 1..Len(saved) : saved[k] = s

HasSurrogate(s) ==
    /\ Len(s.paths) > 0
    /\ s.surrogate_model_path
    /\ surrogateFile

\* C19: whenever the finalized flag of a parametric solution is true, in
\* memory or in the saved record, the solution lists at least one
\* sub-solution, records the path of its surrogate model, and the surrogate
\* file exists; a finalize() that did not complete leaves the flag false.
C19_FinalizedHasSurrogate ==
    /\ (sol.created /\ sol.is_finalized) => HasSurrogate(sol)
    /\ \A k \in 1..Len(saved) : saved[k].is_finalized => HasSurrogate(saved[k])
    /\ \A k \in 1..Len(finalizeLog) :
          (k = Len(finalizeLog) /\ finalizeLog[k].out \notin {"ok", "noop"})
              => ~sol.is_finalized

\* finalize() trained the surrogate of a solution that was not finalized,
\* set the flag and saved it.
C19_Witness ==
    /\ sol.created /\ sol.is_finalized /\ Persisted(sol)
    /\ Len(finalizeLog) > 0
    /\ finalizeLog[Len(finalizeLog)].out = "ok"
    /\ finalizeLog[Len(finalizeLog)].fitted

\* C20: a finalize() call of the forward or leadfield family that succeeds
\* leaves one copy of the elements file, in the directory of the parametric
\* solution; no sub-solution it lists keeps a copy of its own, and each of
\* them refers to the copy of the parent.
C20_SharedGeometryDeduplicated ==
    [][(/\ FinalizeCalled
        /\ kind \in {"forward", "leadfield"}
        /\ finalizeLog'[Len(finalizeLog')].out = "ok") =>
          /\ parentElems'
          /\ \A k \in 1..Len(sol'.paths) :
                /\ HasEntry(disk', sol'.paths[k])
                /\ ~EntryOf(disk', sol'.paths[k]).elems
                /\ EntryOf(disk', sol'.paths[k]).ref = "parent"]_vars

\* C21: a finalize() call that raises leaves the solution directory as it
\* was: no job script deleted, no elements file copied or removed, no
\* sub-solution record rewritten, no surrogate file written and the saved
\* record of the parametric solution not overwritten.
C21_FailureLeavesDiskIntact ==
    [][(FinalizeCalled /\ FinRaised(finalizeLog'[Len(finalizeLog')])) =>
          UNCHANGED <<disk, saved, parentElems, surrogateFile>>]_vars

\* C22: whatever the problem type, a solve whose solver exits with 0 or 1
\* produces its sub-solution, and a solve whose solver exits with any other
\* code raises.
C22_ExitCodeClasses ==
    /\ getdp.pc = "solved" => getdp.code \in {0, 1}
    /\ getdp.pc = "raised" => getdp.code \notin {0, 1}

\* C23: for every family and every mode, when a tissue of the model has no
\* property bound to it, dispatch stops at its check with the configuration
\* error: nothing is sampled, no sub-problem is built, handed to the solver
\* or described.
C23_UncoveredTissueFailsFirst ==
    (Tissues \ chk.bound # {} /\ chk.pc # "idle") =>
        /\ chk.pc \in {"check", "failed"}
        /\ ~chk.sampled
        /\ ~chk.built
        /\ chk.started = 0
        /\ chk.described = 0

\* C24: the design matrix of a fitted surrogate has one row for each
\* sub-solution of the training solution and one column for each varying
\* parameter of the parametric problem, a varying injected current included,
\* in the order of the recorded parameter list, and each row holds the values
\* its sub-solution was solved with.
C24_DesignMatrixColumns ==
    surr.pc = "ready" =>
        LET varying == gen_fixed_varying(MkProb(surr.sol.k, surr.sol.dists)).varying
        IN  /\ Len(surr.x) = surr.sol.n
            /\ Len(surr.params) = Len(varying)
            /\ \A t \in 1..Len(surr.x) :
                  /\ Len(surr.x[t]) = Len(varying)
                  /\ \A c \in 1..Len(varying) :
                        /\ surr.params[c].name = varying[c].name
                        /\ surr.x[t][c] = SubSolsOf(surr.sol)[t].vals[varying[c].name]

\* C25: when a sequential or parallel batch that started in an empty
\* directory was aborted by a failed solve after at least one sub-problem
\* was solved, and the sub-solutions it solved are still in the directory, a
\* manual finalize() whose surrogate fit does not fail succeeds and the
\* references it records are exactly the sub-solutions that were solved.
C25_AbortedBatchFinalizes ==
    [][(/\ pc = "failed"
        /\ err = "ExecutionError"
        /\ disk0 = <<>>
        /\ solved # {}
        /\ \A i \in solved : /\ HasEntry(disk, SubName(i))
                             /\ EntryOf(disk, SubName(i)).json
        /\ finalizeLog = <<>>
        /\ FinalizeCalled
        /\ finalizeLog'[1].out # "FitError")
       => /\ finalizeLog'[1].out = "ok"
          /\ Range(sol'.paths) = {SubName(i) : i \in solved}]_vars

\* C26: the discovery scan lists an entry of the solution directory if and
\* only if the entry is a directory named with the prefix of the solution,
\* an underscore and exactly 8 digits, with nothing after them.
C26_DiscoveryExactPattern ==
    scan.pc = "scanned" =>
        \A k \in 1..Len(scan.dir) :
            (scan.dir[k].name \in Range(scan.found))
                <=> IsSubSolutionDir(scan.dir[k])

\* C27: in Sequential mode, once the solve of sub-problem k has failed no
\* sub-problem of higher index was or is ever handed to the solver; in
\* Sequential and Parallel mode every index handed to the solver lies in
\* 0..N-1 and is handed out at most once in a dispatch.
C27_FailureStopsSequentialBatch ==
    /\ method = METHOD_SEQ =>
          \A k \in failed : \A j \in Range(started) : j <= k
    /\ method \in {METHOD_SEQ, METHOD_MUL} =>
          /\ NoDup(started)
          /\ Range(started) \subseteq 0..(n_evals - 1)

C27_Witness ==
    /\ method = METHOD_SEQ
    /\ pc = "failed"
    /\ failed = {1}
    /\ solved = {0}
    /\ started = <<0, 1>>
    /\ n_evals = 3

\* C28: when the last finalize() call failed in the surrogate fit, after the
\* shared elements file was moved and the sub-solution records rewritten,
\* and the directory still holds exactly the sub-solutions that call listed,
\* a further finalize() call whose fit does not fail succeeds, marks the
\* solution finalized and persists it.
C28_FinalizeRerunnable ==
    [][(/\ finalizeLog # <<>>
        /\ LastFinalize.out = "FitError"
        /\ Range(NamesOf(SelectSeq(disk, MatchForward))) = Range(sol.paths)
        /\ AllLoadable(disk, sol.paths)
        /\ FinalizeCalled
        /\ finalizeLog'[Len(finalizeLog')].out # "FitError")
       => /\ finalizeLog'[Len(finalizeLog')].out = "ok"
          /\ sol'.is_finalized
          /\ \E k \in 1..Len(saved') : saved'[k] = sol']_vars

\* C29: at every point of a predict_sol call, solution k created so far is
\* named <name>_<k + skip, 8 digits>, its in-memory object and its saved
\* record hold row k of x, and the in-memory template sub-solution still
\* holds its own values.
C29_PredictedSolutionsKeepOwnRow ==
    pred.pc \in {"loop", "returned"} =>
        /\ pred.pc = "returned" => Len(pred.sols) = Len(pred.x)
        /\ \A k \in 1..Len(pred.sols) :
              /\ WellFormedName(pred.sols[k].name, k - 1 + pred.skip)
              /\ pred.files[k].name = pred.sols[k].name
              /\ pred.files[k].vals = pred.x[k]
              /\ PredValuesOf(pred.sols[k]) = pred.x[k]
        /\ PredValuesOf(pred.template) = TemplateRow(Len(pred.x[1]))

\* C30: a surrogate fitted under the name and at the location of a surrogate
\* that had cached Sobol indices reports no cached indices, in memory and in
\* its saved record, and the first gen_sobol on it, also after it was
\* loaded again, samples and predicts once with the new model, returns the
\* indices it computed and replaces the content of the Sobol file by them.
C30_RefitSupersedesCache ==
    (surr.pc = "ready" /\ surr.hadCache) =>
        /\ surr.op = "fit" =>
              /\ get_sobol(surr) = PyNone
              /\ ~surr.is_sobol_available
              /\ ~surr.savedFlag
        /\ surr.gens = 0 => (~surr.is_sobol_available /\ ~surr.savedFlag)
        /\ (surr.op = "gen_sobol" /\ surr.gens = 1) =>
              /\ surr.ret.kind = "indices"
              /\ surr.samples = 1
              /\ surr.predicts = 1
              /\ surr.sobolFile = surr.ret
              /\ surr.fileOf = surr.fits

C30_Witness ==
    /\ surr.pc = "ready"
    /\ surr.hadCache
    /\ surr.fits = 2
    /\ surr.op = "gen_sobol"
    /\ surr.gens = 1
    /\ surr.fileOf = 2
====
